---- MODULE Spec2Model ----
(***************************************************************************)
(* Model of the knowledge Q&A / action bot:                                *)
(*   - the MCP server (src/mcp-server/qa_mcp_server.py): tokenizer,        *)
(*     normalized knowledge, the three searches, the intent resolver and   *)
(*     the action tools;                                                   *)
(*   - the MCP client session loop (src/mcp-client/qa_mcp_client.py).      *)
(* Strings are sequences of one-character strings, so that lower(),        *)
(* strip(), substring tests and the token regular expression are computed  *)
(* and not assumed.                                                        *)
(***************************************************************************)
EXTENDS Integers, Sequences, FiniteSets, TLC

VARIABLES
    \* ---- server globals, set once at start-up
    PERSONA_CFG, INTENTS_CFG, KNOWLEDGE,
    SEARCH_MODE, STOPWORDS, MIN_TOKEN_MATCH,
    NORMALIZED_KNOWLEDGE, INTENT_INDEX, FALLBACK_INTENT, SECURITY_TRIGGERS,
    \* ---- the last request served by the server and what it computed
    srv_op, srv_query, srv_results, srv_reply,
    \* ---- client session (locals of main)
    persona, pc, user_query, knowledge, kb_all, intent,
    conversation_history,
    prompt,
    \* ---- boundary calls issued by the client since the last input was read
    calls,
    \* ---- stages of the loop body run since the last input was read
    stages,
    \* ---- every turn appended to conversation_history since the session began
    full_history

server_cfg == << PERSONA_CFG, INTENTS_CFG, KNOWLEDGE, SEARCH_MODE, STOPWORDS,
                 MIN_TOKEN_MATCH, NORMALIZED_KNOWLEDGE, INTENT_INDEX,
                 FALLBACK_INTENT, SECURITY_TRIGGERS >>

server_last == << srv_op, srv_query, srv_results, srv_reply >>

client_vars == << persona, pc, user_query, knowledge, kb_all, intent,
                  conversation_history, prompt, calls, stages, full_history >>

vars == << server_cfg, server_last, client_vars >>

-----------------------------------------------------------------------------
(* Bounds of the model.                                                    *)

\* longest query drawn over Sigma in the server specifications
MaxLen == 3

\* most entries in a knowledge corpus
MaxEntries == 3

\* most intent rules in intents.yaml
MaxRules == 2

\* most force_general phrases
MaxSec == 1

\* most turns of a session that reach the append of the user turn
MaxTurns == 4

-----------------------------------------------------------------------------
(* Text: str.lower, str.strip, the `in` substring test, TOKEN_PATTERN.     *)

UpperLetters ==
    << "A", "B", "C", "D", "E", "F", "G", "H", "I", "J", "K", "L", "M",
       "N", "O", "P", "Q", "R", "S", "T", "U", "V", "W", "X", "Y", "Z" >>

LowerLetters ==
    << "a", "b", "c", "d", "e", "f", "g", "h", "i", "j", "k", "l", "m",
       "n", "o", "p", "q", "r", "s", "t", "u", "v", "w", "x", "y", "z" >>

Range(s) == { s[i] : i \in 1..Len(s) }

UpperSet == Range(UpperLetters)

LowerSet == Range(LowerLetters)

LetterSet == UpperSet \cup LowerSet

LowerMap ==
    [ c \in UpperSet |-> LowerLetters[CHOOSE i \in 1..26 : UpperLetters[i] = c] ]

\* [a-zA-Z]
IsLetter(c) == c \in LetterSet

\* the characters str.strip() removes
IsSpace(c) == c \in { " ", "\t", "\n" }

LowerChar(c) == IF c \in UpperSet THEN LowerMap[c] ELSE c

\* str.lower()
Lower(s) == [ i \in 1..Len(s) |-> LowerChar(s[i]) ]

\* str.strip()
RECURSIVE LStrip(_)
LStrip(s) == IF s # << >> /\ IsSpace(Head(s)) THEN LStrip(Tail(s)) ELSE s

RECURSIVE RStrip(_)
RStrip(s) ==
    IF s # << >> /\ IsSpace(s[Len(s)])
    THEN RStrip(SubSeq(s, 1, Len(s) - 1))
    ELSE s

Strip(s) == RStrip(LStrip(s))

\* Python's `p in q` on strings
IsSubstr(p, q) ==
    \E i \in 0..(Len(q) - Len(p)) : SubSeq(q, i + 1, i + Len(p)) = p

\* dict.get(key, default)
Get(d, key, default) == IF key \in DOMAIN d THEN d[key] ELSE default

\* TOKEN_PATTERN.findall(t): the maximal runs of letters of t
FindAllTokens(t) ==
    { SubSeq(t, i, j) : <<i, j>> \in
        { p \in (1..Len(t)) \X (1..Len(t)) :
            /\ p[1] <= p[2]
            /\ \A k \in p[1]..p[2] : IsLetter(t[k])
            /\ (p[1] = 1 \/ ~IsLetter(t[p[1] - 1]))
            /\ (p[2] = Len(t) \/ ~IsLetter(t[p[2] + 1])) } }

\* tokenize(text) with the configured stopwords
TokenizeWith(text, stopwords) ==
    { t \in FindAllTokens(Lower(text)) : t \notin stopwords }

tokenize(text) == TokenizeWith(text, STOPWORDS)

-----------------------------------------------------------------------------
(* Server start-up: module-level code of qa_mcp_server.py.                 *)

EmptyDict == [ x \in {} |-> x ]

SetOf(seq) == { seq[i] : i \in 1..Len(seq) }

\* SEARCH_CFG, SEARCH_MODE, TEXT_CFG, STOPWORDS, MIN_TOKEN_MATCH
SearchCfgOf(persona_cfg) == Get(persona_cfg, "search", EmptyDict)

SearchModeOf(persona_cfg) == Get(SearchCfgOf(persona_cfg), "mode", "keyword")

TextCfgOf(persona_cfg) ==
    Get(SearchCfgOf(persona_cfg), "text_processing", EmptyDict)

StopwordsOf(persona_cfg) == SetOf(Get(TextCfgOf(persona_cfg), "stopwords", << >>))

MinTokenMatchOf(persona_cfg) == Get(TextCfgOf(persona_cfg), "min_token_match", 1)

\* one entry of NORMALIZED_KNOWLEDGE
NormalizeEntry(entry, stopwords) ==
    LET combined_text == entry.title \o << " " >> \o entry.content
    IN  [ id |-> entry.id, title |-> entry.title, content |-> entry.content,
          category |-> entry.category,
          text |-> Lower(combined_text),
          tokens |-> TokenizeWith(combined_text, stopwords) ]

NormalizeKnowledge(kb, stopwords) ==
    [ i \in 1..Len(kb) |-> NormalizeEntry(kb[i], stopwords) ]

\* one entry of INTENT_INDEX
IndexIntent(rule) ==
    LET triggers == Get(rule, "primary_triggers", << >>)
                    \o Get(rule, "secondary_triggers", << >>)
    IN  [ name |-> rule.name,
          triggers |-> [ j \in 1..Len(triggers) |-> Lower(triggers[j]) ],
          severity |-> Get(rule, "severity", "low") ]

BuildIntentIndex(intents_cfg) ==
    LET rules == Get(intents_cfg, "intents", << >>)
    IN  [ i \in 1..Len(rules) |-> IndexIntent(rules[i]) ]

IntentResolutionCfgOf(intents_cfg) ==
    Get(intents_cfg, "intent_resolution", EmptyDict)

FallbackIntentOf(intents_cfg) ==
    Get(IntentResolutionCfgOf(intents_cfg), "fallback_intent", "general")

SecurityTriggersOf(intents_cfg) ==
    Get(Get(IntentResolutionCfgOf(intents_cfg), "security_triggers", EmptyDict),
        "force_general", << >>)

\* the server's globals after the module has been loaded
ServerStartUp(persona_cfg, intents_cfg, kb) ==
    /\ PERSONA_CFG = persona_cfg
    /\ INTENTS_CFG = intents_cfg
    /\ KNOWLEDGE = kb
    /\ SEARCH_MODE = SearchModeOf(persona_cfg)
    /\ STOPWORDS = StopwordsOf(persona_cfg)
    /\ MIN_TOKEN_MATCH = MinTokenMatchOf(persona_cfg)
    /\ NORMALIZED_KNOWLEDGE = NormalizeKnowledge(kb, StopwordsOf(persona_cfg))
    /\ INTENT_INDEX = BuildIntentIndex(intents_cfg)
    /\ FALLBACK_INTENT = FallbackIntentOf(intents_cfg)
    /\ SECURITY_TRIGGERS = SecurityTriggersOf(intents_cfg)
    /\ srv_op = "none"
    /\ srv_query = << >>
    /\ srv_results = << >>
    /\ srv_reply = EmptyDict

-----------------------------------------------------------------------------
(* Search implementations.                                                 *)

Overlap(q_tokens, k) == Cardinality(q_tokens \cap k.tokens)

\* keyword_search without the empty-token policy
keyword_search_no_empty_policy(query) ==
    LET q_tokens == tokenize(query)
    IN  SelectSeq(NORMALIZED_KNOWLEDGE,
                  LAMBDA k : Overlap(q_tokens, k) >= MIN_TOKEN_MATCH)

keyword_search(query) ==
    LET q_tokens == tokenize(query)
    IN  IF q_tokens = {}
        THEN << >>
        ELSE SelectSeq(NORMALIZED_KNOWLEDGE,
                       LAMBDA k : Overlap(q_tokens, k) >= MIN_TOKEN_MATCH)

\* list.sort(reverse=True, key=score): a stable sort, entries of equal score
\* keep their relative order.  Insertion of x behind every entry whose score
\* is at least x's.
\* an unstable variant: x goes in front of the entries of equal score
RECURSIVE InsertByScoreTiesFirst(_, _)
InsertByScoreTiesFirst(sorted, x) ==
    IF sorted = << >> THEN << x >>
    ELSE IF Head(sorted)[1] > x[1]
         THEN << Head(sorted) >> \o InsertByScoreTiesFirst(Tail(sorted), x)
         ELSE << x >> \o sorted

RECURSIVE InsertByScore(_, _)
InsertByScore(sorted, x) ==
    IF sorted = << >> THEN << x >>
    ELSE IF Head(sorted)[1] >= x[1]
         THEN << Head(sorted) >> \o InsertByScore(Tail(sorted), x)
         ELSE << x >> \o sorted

RECURSIVE SortByScoreDesc(_)
SortByScoreDesc(scored) ==
    IF scored = << >> THEN << >>
    ELSE InsertByScore(SortByScoreDesc(SubSeq(scored, 1, Len(scored) - 1)),
                       scored[Len(scored)])

semantic_search(query) ==
    LET q_tokens == tokenize(query)
        all == [ i \in 1..Len(NORMALIZED_KNOWLEDGE) |->
                   << Overlap(q_tokens, NORMALIZED_KNOWLEDGE[i]),
                      NORMALIZED_KNOWLEDGE[i] >> ]
        scored == SelectSeq(all, LAMBDA x : x[1] > 0)
        sorted == SortByScoreDesc(scored)
    IN  [ i \in 1..Len(sorted) |-> sorted[i][2] ]

\* merged = {}; merged[k.id] = k for keyword hits; setdefault for semantic
\* hits; list(merged.values()).  A dict keeps the order of first insertion
\* of each key and the value last assigned to it.
RECURSIVE MergeAssign(_, _)
MergeAssign(merged, ks) ==
    IF ks = << >> THEN merged
    ELSE LET k == Head(ks)
             at == { i \in 1..Len(merged) : merged[i].id = k.id }
         IN  MergeAssign(
                 IF at = {} THEN Append(merged, k)
                 ELSE [ merged EXCEPT ![CHOOSE i \in at : TRUE] = k ],
                 Tail(ks))

RECURSIVE MergeSetDefault(_, _)
MergeSetDefault(merged, ks) ==
    IF ks = << >> THEN merged
    ELSE LET k == Head(ks)
         IN  MergeSetDefault(
                 IF \E i \in 1..Len(merged) : merged[i].id = k.id
                 THEN merged
                 ELSE Append(merged, k),
                 Tail(ks))

\* hybrid_search with the two searches merged in the other order
hybrid_search_semantic_first(query) ==
    MergeSetDefault(MergeAssign(<< >>, semantic_search(query)),
                    keyword_search(query))

hybrid_search(query) ==
    MergeSetDefault(MergeAssign(<< >>, keyword_search(query)),
                    semantic_search(query))

-----------------------------------------------------------------------------
(* Resources and tools.                                                    *)

Matches(results) ==
    [ i \in 1..Len(results) |->
        [ id |-> results[i].id, title |-> results[i].title,
          content |-> results[i].content, category |-> results[i].category ] ]

SearchResults(query) ==
    IF SEARCH_MODE = "semantic" THEN semantic_search(query)
    ELSE IF SEARCH_MODE = "hybrid" THEN hybrid_search(query)
    ELSE keyword_search(query)

\* knowledge://search/{query}
search_knowledge(query) ==
    [ search_mode |-> SEARCH_MODE, matches |-> Matches(SearchResults(query)) ]

\* knowledge://search/
search_all_knowledge == [ matches |-> Matches(NORMALIZED_KNOWLEDGE) ]

TriggerHit(q, i) ==
    \E j \in 1..Len(INTENT_INDEX[i].triggers) :
        IsSubstr(INTENT_INDEX[i].triggers[j], q)

\* a scan without the early return: the last matching rule wins
RECURSIVE ScanIntentsLastWins(_, _)
ScanIntentsLastWins(q, i) ==
    IF i > Len(INTENT_INDEX)
    THEN [ intent |-> FALLBACK_INTENT, severity |-> "low",
           confidence |-> "fallback" ]
    ELSE LET rest == ScanIntentsLastWins(q, i + 1)
         IN  IF rest.confidence = "high" \/ ~TriggerHit(q, i)
             THEN rest
             ELSE [ intent |-> INTENT_INDEX[i].name,
                    severity |-> INTENT_INDEX[i].severity,
                    confidence |-> "high" ]

RECURSIVE ScanIntents(_, _)
ScanIntents(q, i) ==
    IF i > Len(INTENT_INDEX)
    THEN [ intent |-> FALLBACK_INTENT, severity |-> "low",
           confidence |-> "fallback" ]
    ELSE IF TriggerHit(q, i)
         THEN [ intent |-> INTENT_INDEX[i].name,
                severity |-> INTENT_INDEX[i].severity,
                confidence |-> "high" ]
         ELSE ScanIntents(q, i + 1)

SecurityHit(q) ==
    \E i \in 1..Len(SECURITY_TRIGGERS) : IsSubstr(SECURITY_TRIGGERS[i], q)

\* the intent rules consulted before the security phrases
resolve_intent_rules_first(query) ==
    LET q == Lower(query)
        byRule == ScanIntents(q, 1)
    IN  IF byRule.confidence = "high" THEN byRule
        ELSE IF SecurityHit(q)
        THEN [ intent |-> "general", severity |-> "low",
               confidence |-> "security_override" ]
        ELSE byRule

\* the fallback name hard-wired instead of read from FALLBACK_INTENT
resolve_intent_fixed_fallback(query) ==
    LET q == Lower(query)
        byRule == ScanIntents(q, 1)
    IN  IF SecurityHit(q)
        THEN [ intent |-> "general", severity |-> "low",
               confidence |-> "security_override" ]
        ELSE IF byRule.confidence = "high" THEN byRule
        ELSE [ intent |-> "general", severity |-> "low",
               confidence |-> "fallback" ]

resolve_intent(query) ==
    LET q == Lower(query)
    IN  IF SecurityHit(q)
        THEN [ intent |-> "general", severity |-> "low",
               confidence |-> "security_override" ]
        ELSE ScanIntents(q, 1)

create_ticket(issue) == [ status |-> "created", issue |-> issue ]

\* ---- the server serving one request
\* the search resource keeping its hits as the corpus of later requests
SearchKnowledgeNarrowsCorpus(q) ==
    /\ srv_op' = "search_knowledge"
    /\ srv_query' = q
    /\ srv_results' = SearchResults(q)
    /\ srv_reply' = search_knowledge(q)
    /\ NORMALIZED_KNOWLEDGE' = IF SearchResults(q) = << >>
                               THEN NORMALIZED_KNOWLEDGE
                               ELSE SearchResults(q)
    /\ UNCHANGED << PERSONA_CFG, INTENTS_CFG, KNOWLEDGE, SEARCH_MODE,
                    STOPWORDS, MIN_TOKEN_MATCH, INTENT_INDEX, FALLBACK_INTENT,
                    SECURITY_TRIGGERS >>

SearchKnowledge(q) ==
    /\ srv_op' = "search_knowledge"
    /\ srv_query' = q
    /\ srv_results' = SearchResults(q)
    /\ srv_reply' = search_knowledge(q)
    /\ UNCHANGED server_cfg

SearchAllKnowledge ==
    /\ srv_op' = "search_all_knowledge"
    /\ srv_query' = << >>
    /\ srv_results' = NORMALIZED_KNOWLEDGE
    /\ srv_reply' = search_all_knowledge
    /\ UNCHANGED server_cfg

ResolveIntent(q) ==
    /\ srv_op' = "resolve_intent"
    /\ srv_query' = q
    /\ srv_results' = << >>
    /\ srv_reply' = resolve_intent(q)
    /\ UNCHANGED server_cfg

CreateTicket(issue) ==
    /\ srv_op' = "create_ticket"
    /\ srv_query' = issue
    /\ srv_results' = << >>
    /\ srv_reply' = create_ticket(issue)
    /\ UNCHANGED server_cfg

-----------------------------------------------------------------------------
(* Inputs of the server specifications.                                    *)

SeqsUpTo(S, n) == UNION { [ 1..k -> S ] : k \in 0..n }

\* a lower-case letter, an upper-case letter and a separator
Sigma == { "a", "B", " " }

Queries == SeqsUpTo(Sigma, MaxLen)

EntryPool ==
    { [ id |-> "1", title |-> << "a" >>, content |-> << "B" >>,
        category |-> "billing" ],
      [ id |-> "2", title |-> << "B" >>, content |-> << >>,
        category |-> "account" ],
      [ id |-> "3", title |-> << "a", "B" >>, content |-> << "a" >>,
        category |-> "billing" ] }

Corpora == SeqsUpTo(EntryPool, MaxEntries)

SearchModes == { "keyword", "semantic", "hybrid" }

StopwordLists == { << >>, << << "a" >> >> }

MinTokenMatchValues == { 0, 1, 2 }

SearchPersonas ==
    { [ search |-> [ mode |-> m,
                     text_processing |-> [ stopwords |-> sw,
                                           min_token_match |-> n ] ] ] :
        m \in SearchModes, sw \in StopwordLists, n \in MinTokenMatchValues }
    \cup { EmptyDict }

RulePool ==
    { [ name |-> "billing", primary_triggers |-> << << "a" >> >>,
        severity |-> "medium" ],
      [ name |-> "account", primary_triggers |-> << << "a", " ", "B" >> >>,
        secondary_triggers |-> << << "B", "a" >> >>, severity |-> "high" ],
      [ name |-> "shipping", primary_triggers |-> << << "B" >> >> ] }

SecurityPool == { << "a", "a" >>, << "B" >>, << >> }

FallbackNames == { "general", "other" }

IntentsCfgs ==
    { [ intents |-> rules,
        intent_resolution |->
            [ fallback_intent |-> f,
              security_triggers |-> [ force_general |-> sec ] ] ] :
        rules \in SeqsUpTo(RulePool, MaxRules),
        f \in FallbackNames,
        sec \in SeqsUpTo(SecurityPool, MaxSec) }
    \cup { EmptyDict }

DefaultPersona == EmptyDict

DefaultIntents == EmptyDict

DefaultKnowledge == << >>

\* a client that has connected and read the persona, before its first input
ClientStart ==
    /\ persona = PERSONA_CFG
    /\ pc = "input"
    /\ user_query = << >>
    /\ knowledge = << >>
    /\ kb_all = << >>
    /\ intent = EmptyDict
    /\ conversation_history = << >>
    /\ prompt = EmptyDict
    /\ calls = << >>
    /\ stages = << >>
    /\ full_history = << >>

-----------------------------------------------------------------------------
(* SearchSpec: the knowledge resources over every corpus and query.        *)

SearchInit ==
    /\ \E p \in SearchPersonas, kb \in Corpora :
           ServerStartUp(p, DefaultIntents, kb)
    /\ ClientStart

\* one resource read against each started server
SearchNext ==
    \/ \E q \in Queries :
           srv_op = "none" /\ SearchKnowledge(q) /\ UNCHANGED client_vars
    \/ srv_op = "none" /\ SearchAllKnowledge /\ UNCHANGED client_vars

SearchSpec == SearchInit /\ [][SearchNext]_vars

(* IntentSpec: the resolve_intent tool over every intent configuration.    *)

IntentInit ==
    /\ \E ic \in IntentsCfgs :
           ServerStartUp(DefaultPersona, ic, DefaultKnowledge)
    /\ ClientStart

\* one tool call against each started server
IntentNext ==
    \E q \in Queries :
        srv_op = "none" /\ ResolveIntent(q) /\ UNCHANGED client_vars

IntentSpec == IntentInit /\ [][IntentNext]_vars

(* ServerSpec: one started server serving requests in any order and number, *)
(* as they arrive from its sessions.                                        *)

EntryOf(id) == CHOOSE e \in EntryPool : e.id = id

RuleOf(name) == CHOOSE r \in RulePool : r.name = name

ServerKnowledge == << EntryOf("2"), EntryOf("1"), EntryOf("3") >>

ServerIntents ==
    [ intents |-> << RuleOf("account"), RuleOf("billing") >>,
      intent_resolution |->
          [ fallback_intent |-> "general",
            security_triggers |-> [ force_general |-> << << "B", "B" >> >> ] ] ]

ServerPersonas ==
    { p \in SearchPersonas : MinTokenMatchOf(p) = 1 }

ServerInit ==
    /\ \E p \in ServerPersonas :
           ServerStartUp(p, ServerIntents, ServerKnowledge)
    /\ ClientStart

ServerNext ==
    \/ \E q \in Queries : SearchKnowledge(q) /\ UNCHANGED client_vars
    \/ SearchAllKnowledge /\ UNCHANGED client_vars
    \/ \E q \in Queries : ResolveIntent(q) /\ UNCHANGED client_vars

ServerSpec == ServerInit /\ [][ServerNext]_vars

-----------------------------------------------------------------------------
(* The client session: main() of qa_mcp_client.py.                         *)

MAX_HISTORY_TURNS == 4

ExitKeywords ==
    { << "e", "x", "i", "t" >>, << "q", "u", "i", "t" >>,
      << "d", "o", "n", "e" >> }

\* json.loads(item.text).get("matches", [])
extract_knowledge_matches(resource_result) ==
    Get(resource_result, "matches", << >>)

\* the fallback returning every entry of the category
select_fallback_knowledge_all(all_kb, intent_name) ==
    SelectSeq(all_kb, LAMBDA k : k.category = intent_name)

select_fallback_knowledge(all_kb, intent_name) ==
    LET at == { i \in 1..Len(all_kb) : all_kb[i].category = intent_name }
    IN  IF at = {} THEN << >>
        ELSE << all_kb[CHOOSE i \in at : \A k \in at : i <= k] >>

is_explicit_escalation(query, persona_cfg) ==
    LET indicators ==
            Get(Get(persona_cfg, "escalation_phrases", EmptyDict),
                "user_request_indicators", << >>)
        q == Lower(query)
    IN  \E i \in 1..Len(indicators) : IsSubstr(indicators[i], q)

\* s[:n]
FirstN(s, n) == IF Len(s) <= n THEN s ELSE SubSeq(s, 1, n)

\* s[-n:]
LastN(s, n) == IF Len(s) <= n THEN s ELSE SubSeq(s, Len(s) - n + 1, Len(s))

Call(name, arg, ok) == [ name |-> name, arg |-> arg, ok |-> ok ]

\* the boundary call main() is suspended in at each position
AwaitedCall ==
    [ create_ticket |-> "create_ticket",
      knowledge_search |-> "search_knowledge",
      search_all |-> "search_all_knowledge",
      resolve_intent |-> "resolve_intent",
      generate |-> "generate_content" ]

\* user_query = input("User: ").strip() and the three branches that follow
\* the input step without the skip of a blank line
ReadInputBlankFallsThrough(line) ==
    /\ pc = "input"
    /\ Len(full_history) < 2 * MaxTurns
    /\ user_query' = Strip(line)
    /\ calls' = << >>
    /\ stages' = << >>
    /\ pc' = IF Lower(user_query') \in ExitKeywords THEN "ended"
             ELSE IF is_explicit_escalation(user_query', persona)
                  THEN "create_ticket"
             ELSE "knowledge_search"
    /\ UNCHANGED << persona, knowledge, kb_all, intent, conversation_history,
                    prompt, full_history >>
    /\ UNCHANGED << server_cfg, server_last >>

ReadInput(line) ==
    /\ pc = "input"
    /\ Len(full_history) < 2 * MaxTurns
    /\ user_query' = Strip(line)
    /\ calls' = << >>
    /\ stages' = << >>
    /\ pc' = IF user_query' = << >> THEN "input"
             ELSE IF Lower(user_query') \in ExitKeywords THEN "ended"
             ELSE IF is_explicit_escalation(user_query', persona)
                  THEN "create_ticket"
             ELSE "knowledge_search"
    /\ UNCHANGED << persona, knowledge, kb_all, intent, conversation_history,
                    prompt, full_history >>
    /\ UNCHANGED << server_cfg, server_last >>

\* the escalation branch calling the tool a second time
CallCreateTicketTwice ==
    /\ pc = "create_ticket"
    /\ CreateTicket(user_query)
    /\ calls' = calls \o << Call("create_ticket", user_query, TRUE),
                            Call("create_ticket", user_query, TRUE) >>
    /\ pc' = "escalated"
    /\ UNCHANGED << persona, user_query, knowledge, kb_all, intent,
                    conversation_history, prompt, stages, full_history >>

\* the escalation branch without its break
CallCreateTicketNoBreak ==
    /\ pc = "create_ticket"
    /\ CreateTicket(user_query)
    /\ calls' = Append(calls, Call("create_ticket", user_query, TRUE))
    /\ pc' = "knowledge_search"
    /\ UNCHANGED << persona, user_query, knowledge, kb_all, intent,
                    conversation_history, prompt, stages, full_history >>

\* the escalation branch appending the user turn to the history
CallCreateTicketLogsTurn ==
    /\ pc = "create_ticket"
    /\ CreateTicket(user_query)
    /\ calls' = Append(calls, Call("create_ticket", user_query, TRUE))
    /\ conversation_history' =
           LastN(Append(conversation_history,
                        [ role |-> "user", text |-> user_query ]),
                 MAX_HISTORY_TURNS)
    /\ full_history' = Append(full_history,
                              [ role |-> "user", text |-> user_query ])
    /\ pc' = "escalated"
    /\ UNCHANGED << persona, user_query, knowledge, kb_all, intent, prompt,
                    stages >>

\* await mcp.call_tool("create_ticket", {"issue": user_query}); break
CallCreateTicket ==
    /\ pc = "create_ticket"
    /\ CreateTicket(user_query)
    /\ calls' = Append(calls, Call("create_ticket", user_query, TRUE))
    /\ pc' = "escalated"
    /\ UNCHANGED << persona, user_query, knowledge, kb_all, intent,
                    conversation_history, prompt, stages, full_history >>

\* kb_res = await mcp.read_resource(f"knowledge://search/{user_query}")
CallKnowledgeSearch ==
    /\ pc = "knowledge_search"
    /\ SearchKnowledge(user_query)
    /\ knowledge' = extract_knowledge_matches(srv_reply')
    /\ calls' = Append(calls, Call("search_knowledge", user_query, TRUE))
    /\ stages' = Append(stages, "knowledge_search")
    /\ pc' = "search_all"
    /\ UNCHANGED << persona, user_query, kb_all, intent, conversation_history,
                    prompt, full_history >>

\* the corpus read going on to the text generator at once
CallSearchAllSkipsIntent ==
    /\ pc = "search_all"
    /\ SearchAllKnowledge
    /\ kb_all' = extract_knowledge_matches(srv_reply')
    /\ calls' = Append(calls, Call("search_all_knowledge", << >>, TRUE))
    /\ stages' = Append(stages, "corpus_load")
    /\ pc' = "generate"
    /\ UNCHANGED << persona, user_query, knowledge, intent,
                    conversation_history, prompt, full_history >>

\* kb_all = ... await mcp.read_resource("knowledge://search/")
CallSearchAll ==
    /\ pc = "search_all"
    /\ SearchAllKnowledge
    /\ kb_all' = extract_knowledge_matches(srv_reply')
    /\ calls' = Append(calls, Call("search_all_knowledge", << >>, TRUE))
    /\ stages' = Append(stages, "corpus_load")
    /\ pc' = "resolve_intent"
    /\ UNCHANGED << persona, user_query, knowledge, intent,
                    conversation_history, prompt, full_history >>

\* str.upper() of a role name
RoleUpper(role) ==
    CASE role = "user" -> "USER"
      [] role = "model" -> "MODEL"

\* the prompt built from the history without its newest turn
BuildPromptStale(persona_cfg, kb, history) ==
    [ persona |-> persona_cfg,
      knowledge |-> kb,
      context |-> [ i \in 1..(Len(history) - 1) |->
                      [ role |-> RoleUpper(history[i].role),
                        text |-> history[i].text ] ] ]

\* the prompt: persona, knowledge and one "ROLE: text" line per history turn
BuildPrompt(persona_cfg, kb, history) ==
    [ persona |-> persona_cfg,
      knowledge |-> kb,
      context |-> [ i \in 1..Len(history) |->
                      [ role |-> RoleUpper(history[i].role),
                        text |-> history[i].text ] ] ]

\* intent resolution, knowledge fallback, the append of the user turn and
\* the prompt, up to the call of the text generator
CallResolveIntent ==
    /\ pc = "resolve_intent"
    /\ ResolveIntent(user_query)
    /\ intent' = srv_reply'
    /\ knowledge' = IF knowledge = << >>
                    THEN select_fallback_knowledge(kb_all, intent'.intent)
                    ELSE knowledge
    /\ conversation_history' =
           LastN(Append(conversation_history,
                        [ role |-> "user", text |-> user_query ]),
                 MAX_HISTORY_TURNS)
    /\ full_history' = Append(full_history,
                              [ role |-> "user", text |-> user_query ])
    /\ prompt' = BuildPrompt(persona, knowledge', conversation_history')
    /\ calls' = Append(calls, Call("resolve_intent", user_query, TRUE))
    /\ stages' = stages
                  \o << "intent_resolution" >>
                  \o (IF knowledge = << >> THEN << "category_fallback" >>
                      ELSE << >>)
                  \o << "append_user", "build_prompt" >>
    /\ pc' = "generate"
    /\ UNCHANGED << persona, user_query, kb_all >>

\* response = await gemini.aio.models.generate_content(...) and the rest of
\* the loop body
CallGenerate(text) ==
    /\ pc = "generate"
    /\ conversation_history' =
           Append(conversation_history,
                  [ role |-> "model", text |-> Strip(text) ])
    /\ full_history' = Append(full_history,
                              [ role |-> "model", text |-> Strip(text) ])
    /\ calls' = Append(calls, Call("generate_content", prompt, TRUE))
    /\ stages' = stages \o << "generation", "append_model" >>
    /\ pc' = "input"
    /\ UNCHANGED << persona, user_query, knowledge, kb_all, intent, prompt >>
    /\ UNCHANGED << server_cfg, server_last >>

\* the awaited call raises (collaborator unreachable, or a reply that cannot
\* be read): nothing in main() catches it, the loop and main() are left
CallFails ==
    /\ pc \in DOMAIN AwaitedCall
    /\ calls' = Append(calls,
                       Call(AwaitedCall[pc],
                            IF pc = "search_all" THEN << >>
                            ELSE IF pc = "generate" THEN prompt
                            ELSE user_query,
                            FALSE))
    /\ pc' = "crashed"
    /\ UNCHANGED << persona, user_query, knowledge, kb_all, intent,
                    conversation_history, prompt, stages, full_history >>
    /\ UNCHANGED << server_cfg, server_last >>

-----------------------------------------------------------------------------
(* Spec: one client session against a started server.                      *)

Word_bill == << "b", "i", "l", "l" >>

Word_bills == << "b", "i", "l", "l", "s" >>

Word_pay == << "p", "a", "y" >>

Word_login == << "l", "o", "g", "i", "n" >>

Word_hack == << "h", "a", "c", "k" >>

Word_hi == << "h", "i" >>

Word_agent == << "a", "g", "e", "n", "t" >>

Word_human == << "h", "u", "m", "a", "n" >>

SessionKnowledge ==
    << [ id |-> "k1", title |-> Word_bill, content |-> Word_pay,
         category |-> "billing" ],
       [ id |-> "k2", title |-> Word_login, content |-> Word_hi,
         category |-> "account" ],
       [ id |-> "k3", title |-> Word_pay, content |-> << >>,
         category |-> "billing" ] >>

SessionIntents ==
    [ intents |->
        << [ name |-> "billing", primary_triggers |-> << Word_bill >>,
             severity |-> "medium" ],
           [ name |-> "account", primary_triggers |-> << Word_login >>,
             severity |-> "high" ] >>,
      intent_resolution |->
        [ fallback_intent |-> "general",
          security_triggers |-> [ force_general |-> << Word_hack >> ] ] ]

SessionPersonas ==
    { [ escalation_phrases |-> [ user_request_indicators |-> << Word_agent >> ] ],
      [ search |-> [ mode |-> "semantic",
                     text_processing |-> [ stopwords |-> << Word_hi >>,
                                           min_token_match |-> 1 ] ],
        escalation_phrases |->
            [ user_request_indicators |->
                << << "A", "g", "e", "n", "t" >>, Word_human >> ] ],
      [ search |-> [ mode |-> "hybrid" ] ] }

\* lines typed by the user
InputLines ==
    { << >>, << " " >>,
      << "e", "x", "i", "t" >>, << " ", "Q", "U", "I", "T" >>,
      Word_bill, Word_bills, << "H", "i", " " >>,
      << "A", "g", "e", "n", "t" >>,
      << "H", "u", "m", "a", "n", " " >> \o Word_bill }

\* texts returned by the text generator
ReplyTexts == { << "o", "k" >>, << " ", "n", "o", "\n" >> }

Init ==
    /\ \E p \in SessionPersonas :
           ServerStartUp(p, SessionIntents, SessionKnowledge)
    /\ ClientStart

Next ==
    \/ \E line \in InputLines : ReadInput(line)
    \/ CallCreateTicket
    \/ CallKnowledgeSearch
    \/ CallSearchAll
    \/ CallResolveIntent
    \/ \E text \in ReplyTexts : CallGenerate(text)
    \/ CallFails

Spec == Init /\ [][Next]_vars

-----------------------------------------------------------------------------
(* Properties of the session (Spec).                                       *)

ActionNames == { "create_ticket", "update_record", "send_notification" }

\* the action-execution calls issued since the last input was read
ActionCalls == SelectSeq(calls, LAMBDA c : c.name \in ActionNames)

\* the query of the current turn is non-blank, no exit keyword, and an
\* explicit escalation
ExplicitTurn ==
    /\ user_query # << >>
    /\ Lower(user_query) \notin ExitKeywords
    /\ is_explicit_escalation(user_query, persona)

\* the loop body ran to its end on the current query
TurnCompleted ==
    /\ pc = "input"
    /\ calls # << >>
    /\ calls[Len(calls)] = Call("generate_content", prompt, TRUE)

\* C1 as stated: conversation_history never holds more than
\* MAX_HISTORY_TURNS entries, also right after the model reply is appended.
C1_HistoryBounded == Len(conversation_history) <= MAX_HISTORY_TURNS

C3_AtMostOneActionPerTurn == Len(ActionCalls) <= 1

\* an action call on a turn that follows completed turns
C3_Witness ==
    /\ conversation_history # << >>
    /\ Len(ActionCalls) = 1
    /\ pc = "escalated"

\* the built-in "ask for a human" phrases of the implicit escalation
AskForHumanPhrases == { Word_human }

AsksForHuman(query) ==
    \E ph \in AskForHumanPhrases : IsSubstr(ph, Lower(query))

\* C4 as stated: a completed turn without explicit escalation whose query
\* asks for a human and whose intent has severity medium or high has
\* executed create_ticket, and the session accepts the next input.
C4_ImplicitEscalation ==
    (TurnCompleted /\ ~ExplicitTurn /\ AsksForHuman(user_query)
        /\ intent.severity \in { "medium", "high" })
        => /\ \E i \in 1..Len(calls) :
                calls[i] = Call("create_ticket", user_query, TRUE)
           /\ pc = "input"

\* C6 as stated: after a collaborator call of a turn without explicit
\* escalation has failed, the session is alive and accepts the next input.
C6_FailedTurnKeepsSession ==
    ((\E i \in 1..Len(calls) : ~calls[i].ok) /\ ~ExplicitTurn)
        => pc = "input"

-----------------------------------------------------------------------------
(* Properties of the intent resolver (IntentSpec).                         *)

ResolveServed == srv_op = "resolve_intent"

\* the rules and phrases as configured in intents.yaml
ConfiguredRules == Get(INTENTS_CFG, "intents", << >>)

ConfiguredTriggers(rule) ==
    Get(rule, "primary_triggers", << >>) \o Get(rule, "secondary_triggers", << >>)

ForceGeneral == SecurityTriggersOf(INTENTS_CFG)

SecurityPhraseIn(query) ==
    \E i \in 1..Len(ForceGeneral) : IsSubstr(ForceGeneral[i], Lower(query))

RuleMatches(i, query) ==
    \E j \in 1..Len(ConfiguredTriggers(ConfiguredRules[i])) :
        IsSubstr(Lower(ConfiguredTriggers(ConfiguredRules[i])[j]), Lower(query))

MatchingRules(query) ==
    { i \in 1..Len(ConfiguredRules) : RuleMatches(i, query) }

FirstMatchingRule(query) ==
    CHOOSE i \in MatchingRules(query) : \A k \in MatchingRules(query) : i <= k

\* C5: a query whose lowercased text contains a force_general phrase resolves
\* to general / low / security_override, whatever the intent rules are and
\* even if a trigger of some rule occurs in the query as well.
C5_SecurityOverrideWins ==
    (ResolveServed /\ SecurityPhraseIn(srv_query))
        => srv_reply = [ intent |-> "general", severity |-> "low",
                         confidence |-> "security_override" ]

\* a security phrase and a trigger both occur in the query served
C5_Witness ==
    /\ ResolveServed
    /\ SecurityPhraseIn(srv_query)
    /\ MatchingRules(srv_query) # {}
    /\ srv_reply.confidence = "security_override"

\* C7: with no security phrase in the query, the reply names the first rule
\* in declaration order one of whose lowercased triggers occurs in the
\* lowercased query, with that rule's severity and confidence high.
C7_FirstRuleWins ==
    (ResolveServed /\ ~SecurityPhraseIn(srv_query)
        /\ MatchingRules(srv_query) # {})
        => LET rule == ConfiguredRules[FirstMatchingRule(srv_query)]
           IN  srv_reply = [ intent |-> rule.name,
                             severity |-> Get(rule, "severity", "low"),
                             confidence |-> "high" ]

\* two rules of different names match and the later one matches with a
\* longer trigger than any of the earlier one
C7_Witness ==
    /\ ResolveServed
    /\ ~SecurityPhraseIn(srv_query)
    /\ \E i, k \in MatchingRules(srv_query) :
          /\ i < k
          /\ ConfiguredRules[i].name # ConfiguredRules[k].name
          /\ \E b \in 1..Len(ConfiguredTriggers(ConfiguredRules[k])) :
                /\ IsSubstr(Lower(ConfiguredTriggers(ConfiguredRules[k])[b]),
                            Lower(srv_query))
                /\ \A a \in 1..Len(ConfiguredTriggers(ConfiguredRules[i])) :
                      Len(ConfiguredTriggers(ConfiguredRules[i])[a])
                          < Len(ConfiguredTriggers(ConfiguredRules[k])[b])
          /\ srv_reply.intent = ConfiguredRules[i].name
    /\ srv_reply.confidence = "high"

FallbackReply ==
    [ intent |-> FallbackIntentOf(INTENTS_CFG), severity |-> "low",
      confidence |-> "fallback" ]

\* C8 as stated: for every configuration the empty query resolves to the
\* fallback intent with severity low and confidence fallback.
C8_EmptyQueryAnyConfig ==
    (ResolveServed /\ srv_query = << >>) => srv_reply = FallbackReply

NoEmptyPhrase ==
    /\ \A i \in 1..Len(ForceGeneral) : ForceGeneral[i] # << >>
    /\ \A i \in 1..Len(ConfiguredRules) :
          \A j \in 1..Len(ConfiguredTriggers(ConfiguredRules[i])) :
              ConfiguredTriggers(ConfiguredRules[i])[j] # << >>

\* C8 amended: for every configuration none of whose security phrases and
\* triggers is the empty string, the empty query matches no phrase and no
\* trigger and resolves to the fallback intent, severity low, confidence
\* fallback.
C8_EmptyQueryFallback ==
    (ResolveServed /\ srv_query = << >> /\ NoEmptyPhrase)
        => /\ ~SecurityPhraseIn(srv_query)
           /\ MatchingRules(srv_query) = {}
           /\ srv_reply = FallbackReply

\* the empty query served under a configuration with phrases and rules
C8_Witness ==
    /\ ResolveServed
    /\ srv_query = << >>
    /\ NoEmptyPhrase
    /\ Len(ForceGeneral) > 0
    /\ Len(ConfiguredRules) > 0
    /\ srv_reply.confidence = "fallback"

-----------------------------------------------------------------------------
(* Properties of the searches (SearchSpec).                                *)

SearchServed == srv_op = "search_knowledge"

QueryTokens == tokenize(srv_query)

Score(i) == Cardinality(QueryTokens \cap NORMALIZED_KNOWLEDGE[i].tokens)

\* the sequence of the corpus entries at the positions of I, ordered by Before
Arrange(I, Before(_, _)) ==
    [ j \in 1..Cardinality(I) |->
        NORMALIZED_KNOWLEDGE[
            CHOOSE i \in I :
                Cardinality({ k \in I : Before(k, i) }) = j - 1 ] ]

CorpusOrder(k, i) == k < i

ScoreThenCorpusOrder(k, i) ==
    \/ Score(k) > Score(i)
    \/ Score(k) = Score(i) /\ k < i

KeywordHits ==
    { i \in 1..Len(NORMALIZED_KNOWLEDGE) : Score(i) >= MIN_TOKEN_MATCH }

SemanticHits == { i \in 1..Len(NORMALIZED_KNOWLEDGE) : Score(i) > 0 }

\* C9: keyword_search returns the empty list when the query has no token;
\* otherwise exactly the entries sharing at least min_token_match tokens with
\* the query, each once, in corpus order.
C9_KeywordSearch ==
    (SearchServed /\ SEARCH_MODE = "keyword")
        => srv_results = IF QueryTokens = {} THEN << >>
                         ELSE Arrange(KeywordHits, CorpusOrder)

\* a query with tokens that selects some entries of the corpus, not all
C9_Witness ==
    /\ SearchServed
    /\ SEARCH_MODE = "keyword"
    /\ QueryTokens # {}
    /\ Len(srv_results) >= 2
    /\ Len(srv_results) < Len(NORMALIZED_KNOWLEDGE)

\* C10: semantic_search returns exactly the entries of overlap > 0, by
\* non-increasing overlap, entries of equal overlap in corpus order.
C10_SemanticSearch ==
    (SearchServed /\ SEARCH_MODE = "semantic")
        => srv_results = Arrange(SemanticHits, ScoreThenCorpusOrder)

\* the sort moved an entry to the front and left a tie in corpus order
C10_Witness ==
    /\ SearchServed
    /\ SEARCH_MODE = "semantic"
    /\ Len(srv_results) >= 3
    /\ \E i, k \in SemanticHits :
          i < k /\ Score(i) < Score(k) /\ srv_results[1] = NORMALIZED_KNOWLEDGE[k]
    /\ \E i, k \in SemanticHits :
          /\ i < k
          /\ Score(i) = Score(k)
          /\ NORMALIZED_KNOWLEDGE[i] # NORMALIZED_KNOWLEDGE[k]

UniqueIds ==
    \A i, k \in 1..Len(NORMALIZED_KNOWLEDGE) :
        NORMALIZED_KNOWLEDGE[i].id = NORMALIZED_KNOWLEDGE[k].id => i = k

\* the positions keyword_search returns for the query served
KeywordFound == IF QueryTokens = {} THEN {} ELSE KeywordHits

\* C11: over a corpus of unique ids, hybrid_search returns every keyword hit
\* and every semantic hit once: the keyword hits first, in keyword_search
\* order, then the semantic hits that are no keyword hit, in
\* semantic_search order.
C11_HybridSearch ==
    (SearchServed /\ SEARCH_MODE = "hybrid" /\ UniqueIds)
        => /\ srv_results =
                  Arrange(KeywordFound, CorpusOrder)
                  \o Arrange(SemanticHits \ KeywordFound, ScoreThenCorpusOrder)
           /\ \A i \in KeywordFound \cup SemanticHits :
                  Cardinality({ j \in 1..Len(srv_results) :
                                  srv_results[j].id
                                      = NORMALIZED_KNOWLEDGE[i].id }) = 1

\* every entry is returned, and a keyword hit is placed before a
\* semantic-only hit that precedes it in the corpus
C11_Witness ==
    /\ SearchServed
    /\ SEARCH_MODE = "hybrid"
    /\ UniqueIds
    /\ KeywordFound # {}
    /\ Cardinality(SemanticHits \ KeywordFound) >= 1
    /\ \E i \in SemanticHits \ KeywordFound, k \in KeywordFound : i < k
    /\ Len(srv_results) = Len(NORMALIZED_KNOWLEDGE)

-----------------------------------------------------------------------------
(* Properties of the turns of a session (Spec).                            *)

\* the loop has been left: by an exit keyword, by the break of the
\* escalation branch, or by an exception leaving main()
SessionOver == pc \in { "ended", "escalated", "crashed" }

\* C12 as stated: the session is over only on a turn whose query is an exit
\* keyword or an explicit escalation; every other turn returns to the input
\* prompt.
C12_EndsOnlyOnExitOrEscalation ==
    SessionOver
        => \/ Lower(user_query) \in ExitKeywords
           \/ ExplicitTurn

\* C13: reading a blank line runs no stage of the turn: the step issues no
\* call, talks to no server, changes neither conversation_history nor any
\* other data of the session, and leaves the loop at the input prompt.
C13_BlankInputIsNoTurn ==
    [][(pc = "input" /\ user_query' = << >>)
          => /\ pc' = "input"
             /\ calls' = << >>
             /\ stages' = << >>
             /\ conversation_history' = conversation_history
             /\ UNCHANGED << knowledge, kb_all, intent, prompt, full_history >>
             /\ UNCHANGED << server_cfg, server_last >>]_vars

\* a blank line has been read after a completed turn
C13_Witness ==
    /\ pc = "input"
    /\ user_query = << >>
    /\ calls = << >>
    /\ conversation_history # << >>
    /\ srv_op = "resolve_intent"

\* C15: conversation_history is a contiguous suffix of the chronological
\* sequence of all user and model turns of the session: the retained entries
\* are the newest ones, in their order, none missing in between.
C15_HistoryIsSuffix ==
    /\ Len(conversation_history) <= Len(full_history)
    /\ \A i \in 1..Len(conversation_history) :
           conversation_history[i] =
               full_history[Len(full_history) - Len(conversation_history) + i]

\* entries have been evicted, and the retained turns are not all alike
C15_Witness ==
    /\ Len(full_history) >= Len(conversation_history) + 2
    /\ Len(conversation_history) >= MAX_HISTORY_TURNS
    /\ full_history[1] # full_history[3]
    /\ conversation_history[1] # conversation_history[3]

\* the prompt of the current turn has been built
PromptBuilt == \E i \in 1..Len(stages) : stages[i] = "build_prompt"

\* the entries the search resource returns for the query of the turn
SearchFound == Matches(SearchResults(user_query))

\* the corpus positions whose category is the intent name of the query
CategoryOfIntent ==
    { i \in 1..Len(NORMALIZED_KNOWLEDGE) :
        NORMALIZED_KNOWLEDGE[i].category = resolve_intent(user_query).intent }

\* C16: the knowledge of the prompt is the search result when that is not
\* empty; otherwise it is the first corpus entry whose category is the
\* intent name resolved for the query, alone, or nothing when no entry has
\* that category.
C16_KnowledgeForComposer ==
    PromptBuilt
        => prompt.knowledge =
               IF SearchFound # << >> THEN SearchFound
               ELSE IF CategoryOfIntent = {} THEN << >>
               ELSE << Matches(NORMALIZED_KNOWLEDGE)[
                          CHOOSE i \in CategoryOfIntent :
                              \A k \in CategoryOfIntent : i <= k] >>

\* the search found nothing and two entries have the category of the intent
C16_Witness ==
    /\ PromptBuilt
    /\ pc = "generate"
    /\ SearchFound = << >>
    /\ Cardinality(CategoryOfIntent) >= 2
    /\ Len(prompt.knowledge) = 1

\* the stages of a turn in the order main() runs them; the category
\* fallback is run when the search found nothing
StageOrder(with_fallback) ==
    << "knowledge_search", "corpus_load", "intent_resolution" >>
    \o (IF with_fallback THEN << "category_fallback" >> ELSE << >>)
    \o << "append_user", "build_prompt", "generation", "append_model" >>

\* the order of the stages (b), (c), (d), (f), (g), (h) as the claim has it
ClaimedStageOrder(with_fallback) ==
    << "knowledge_search" >>
    \o (IF with_fallback THEN << "category_fallback" >> ELSE << >>)
    \o << "intent_resolution", "append_user", "generation", "append_model" >>

IsPrefix(s, t) == Len(s) <= Len(t) /\ SubSeq(t, 1, Len(s)) = s

\* the boundary call of each stage that crosses the boundary
BoundaryCallOf ==
    [ knowledge_search |-> "search_knowledge",
      corpus_load |-> "search_all_knowledge",
      intent_resolution |-> "resolve_intent",
      generation |-> "generate_content" ]

AwaitedStages == SelectSeq(stages, LAMBDA st : st \in DOMAIN BoundaryCallOf)

\* the calls of the turn that returned, the action calls left out
ReturnedCalls ==
    SelectSeq(calls, LAMBDA c : c.ok /\ c.name \notin ActionNames)

StageRan(st) == \E i \in 1..Len(stages) : stages[i] = st

\* C17 as stated: the stages (b), (c), (d), (f), (g), (h) of a turn run in
\* this order, the category fallback before the intent resolution.
C17_FallbackBeforeIntent ==
    \E fb \in BOOLEAN :
        IsPrefix(SelectSeq(stages,
                           LAMBDA st : st \in Range(ClaimedStageOrder(TRUE))),
                 ClaimedStageOrder(fb))

\* C17, amended: the stages of a turn run in the order knowledge search,
\* corpus read, intent resolution, category fallback (exactly when the search
\* found nothing), append of the user turn, prompt, generation, append of
\* the generated turn; every boundary stage that ran has its call returned,
\* in the same order; the loop is at the input prompt only with no stage run
\* or with the append of the generated turn done, and at the call of the
\* generator only with the prompt built.
C17_StageOrder ==
    /\ \E fb \in BOOLEAN : IsPrefix(stages, StageOrder(fb))
    /\ StageRan("category_fallback")
           <=> (StageRan("intent_resolution") /\ SearchFound = << >>)
    /\ [ i \in 1..Len(AwaitedStages) |-> BoundaryCallOf[AwaitedStages[i]] ]
           = [ i \in 1..Len(ReturnedCalls) |-> ReturnedCalls[i].name ]
    /\ pc = "input"
           => stages = << >> \/ stages[Len(stages)] = "append_model"
    /\ pc = "generate"
           => stages # << >> /\ stages[Len(stages)] = "build_prompt"

\* a later turn of the session ran all its stages, the fallback among them
C17_Witness ==
    /\ TurnCompleted
    /\ stages = StageOrder(TRUE)
    /\ Len(full_history) >= 4

\* the calls of the text generator issued since the last input was read
GenerateCalls == SelectSeq(calls, LAMBDA c : c.name = "generate_content")

\* the turns of the session up to the user turn of the current query
TurnsUpToQuery ==
    IF TurnCompleted THEN SubSeq(full_history, 1, Len(full_history) - 1)
    ELSE full_history

\* the loop body has been left on a query that is no explicit escalation
OrdinaryTurnOver ==
    /\ pc \in { "input", "crashed" }
    /\ user_query # << >>
    /\ ~ExplicitTurn

C19_EscalationTurnFrame ==
    [][ExplicitTurn'
          => /\ conversation_history' = conversation_history
             /\ full_history' = full_history
             /\ UNCHANGED << knowledge, kb_all, intent, prompt >>
             /\ stages' = << >>
             /\ srv_op' \in { srv_op, "create_ticket" }
             /\ \A i \in 1..Len(calls') :
                    /\ calls'[i].name = "create_ticket"
                    /\ calls'[i].arg = user_query']_vars

\* a ticket created, after completed turns, for a query with capitals that
\* resolves to an intent of severity medium
C19_Witness ==
    /\ ExplicitTurn
    /\ pc = "escalated"
    /\ conversation_history # << >>
    /\ user_query # Lower(user_query)
    /\ resolve_intent(user_query).severity = "medium"
    /\ srv_reply = create_ticket(user_query)

-----------------------------------------------------------------------------
(* Properties of the server under any sequence of requests (ServerSpec).   *)

\* the globals derived at import are what start-up computes from the
\* configuration files
StartUpState ==
    /\ SEARCH_MODE = SearchModeOf(PERSONA_CFG)
    /\ STOPWORDS = StopwordsOf(PERSONA_CFG)
    /\ MIN_TOKEN_MATCH = MinTokenMatchOf(PERSONA_CFG)
    /\ NORMALIZED_KNOWLEDGE
           = NormalizeKnowledge(KNOWLEDGE, StopwordsOf(PERSONA_CFG))
    /\ INTENT_INDEX = BuildIntentIndex(INTENTS_CFG)
    /\ FALLBACK_INTENT = FallbackIntentOf(INTENTS_CFG)
    /\ SECURITY_TRIGGERS = SecurityTriggersOf(INTENTS_CFG)

\* the reply last given is the one the request gets from the server as it
\* is now
ReplyOfRequest ==
    /\ srv_op = "search_knowledge"
           => /\ srv_results = SearchResults(srv_query)
              /\ srv_reply = search_knowledge(srv_query)
    /\ srv_op = "search_all_knowledge"
           => /\ srv_results = NORMALIZED_KNOWLEDGE
              /\ srv_reply = search_all_knowledge
    /\ srv_op = "resolve_intent" => srv_reply = resolve_intent(srv_query)

\* C18: no request changes the configuration, the normalized corpus with its
\* token sets, the intent index or the search settings: after every request,
\* whatever was served before, they are what start-up derived from the
\* configuration files, and the reply is the one the request gets from that
\* start-up state.
C18_RequestsLeaveServerAlone ==
    /\ [][server_cfg' = server_cfg]_vars
    /\ [](StartUpState /\ ReplyOfRequest)

\* a search has returned some entries of the corpus, re-ordered, with the
\* server able to take any request next
C18_Witness ==
    /\ srv_op = "search_knowledge"
    /\ Len(srv_results) >= 2
    /\ srv_results[1] # NORMALIZED_KNOWLEDGE[1]
    /\ StartUpState
    /\ \A q \in Queries : ENABLED ResolveIntent(q)

====
